---- MODULE Spec2Model ----
(***************************************************************************)
(* BrainSpy preprocessing: the staged, parallel file-transformation        *)
(* pipeline of preprocess.py and preprocess_gpu.py.                        *)
(*                                                                         *)
(* One run of either script is modelled: the command line and the machine  *)
(* (args, env) are drawn in Init, the main process discovers the files and *)
(* submits one future per file to a ProcessPoolExecutor, the workers run   *)
(* process_single_file / process_single_file_gpu stage by stage, and the   *)
(* main process counts the futures as they complete.                       *)
(*                                                                         *)
(* Strings are sequences of tokens ("/", ".", "_" and words that hold none *)
(* of these three characters apart from the three stage names), so that    *)
(* equal token sequences are equal strings and the path functions          *)
(* (relpath, dirname, basename, splitext, join) are computed as os.path    *)
(* computes them.                                                          *)
(***************************************************************************)
EXTENDS Integers, Sequences, FiniteSets, TLC

\* ------------------------------------------------------------------ bounds

\* Largest number of files the discovery glob returns.
MaxFiles == 2
\* Largest --n_jobs given on the command line (0 stands for: not given).
MaxJobs == 2
\* Largest mp.cpu_count().
MaxCores == 3

\* --------------------------------------------------------- program constants

\* argparse default of --timeout, seconds.
DefaultTimeout == 1800
\* The timeout preprocess_gpu.py passes to check_call, seconds.
GpuTimeout == 300
\* The deadline of an invocation made without any timeout argument.
NoDeadline == 0

VARIABLES
    args,          \* the parsed command line: script, robex, mni_reg, segmentation, gpu, n_jobs
    env,           \* the machine: cuda (torch.cuda.is_available()), cores, nfiles
    pc,            \* main process: "start", "collect", "done"
    n_jobs,        \* max_workers of the pool (0 before the pool exists)
    executor,      \* "none", "running", "broken"
    status,        \* per file: "unsubmitted", "queued", "running", "done", "observed"
    idx,           \* per file: the loop index i of process_single_file (1-based)
    current_file,  \* per file: the worker's current_file
    future,        \* per file: the future's outcome, once done
    log,           \* per file: the stage invocations made so far
    dirs,          \* the directories created by os.makedirs
    successful,    \* main's counter
    failed,        \* main's counter
    pbar,          \* tqdm's counter
    counted,       \* per file: how many times as_completed yielded its future
    exit           \* how the script ended: "running", "completed"

vars == <<args, env, pc, n_jobs, executor, status, idx, current_file, future,
          log, dirs, successful, failed, pbar, counted, exit>>

FileIds == 1..MaxFiles

\* ------------------------------------------------------------------- paths

\* Position of the last token t in s, 0 when there is none (str.rfind).
LastIndexOf(s, t) ==
    LET hits == {k \in 1..Len(s) : s[k] = t}
    IN  IF hits = {} THEN 0 ELSE CHOOSE k \in hits : \A j \in hits : j <= k

\* os.path.join of two parts.
Join(a, b) == a \o <<"/">> \o b

\* os.path.basename
Basename(p) == SubSeq(p, LastIndexOf(p, "/") + 1, Len(p))

\* os.path.dirname
Dirname(p) == SubSeq(p, 1, LastIndexOf(p, "/") - 1)

\* os.path.splitext(n)[0]: cut at the last dot, unless the dot leads the name.
SplitextRoot(n) ==
    LET k == LastIndexOf(n, ".")
    IN  IF k <= 1 THEN n ELSE SubSeq(n, 1, k - 1)

\* str.endswith('.nii')
EndsWithNii(n) == Len(n) >= 2 /\ n[Len(n) - 1] = "." /\ n[Len(n)] = "nii"

\* Relpath taken against the ADNI directory instead of base_dir.
Relpath_BelowTop(p, base) == SubSeq(p, Len(base) + 4, Len(p))

\* os.path.relpath(p, base) for a path the glob built below base.
Relpath(p, base) == SubSeq(p, Len(base) + 2, Len(p))

\* args.base_dir and os.getcwd()
BASE_DIR == <<"data">>
CURRENT_DIR == <<"cwd">>

\* The file names under ADNI/a/b/c/d that the pattern *.nii matches:
\* a.nii, a.nii.nii, and sss.nii, ssss.nii, ...
FileName(f) ==
    IF f = 1 THEN <<"a", ".", "nii">>
    ELSE IF f = 2 THEN <<"a", ".", "nii", ".", "nii">>
    ELSE [k \in 1..f |-> "s"] \o <<".", "nii">>

\* One path of glob.glob(os.path.join(base_dir, "ADNI/**/**/**/**/*.nii")).
FilePath(f) ==
    Join(BASE_DIR, <<"ADNI", "/", "a", "/", "b", "/", "c", "/", "d", "/">> \o FileName(f))

\* ---------------------------------------------------------- configuration

NamesOf_DefaultStage(robex, mni_reg, segmentation) ==
    IF ~robex /\ ~mni_reg /\ ~segmentation
    THEN <<"skull_stripped">>
    ELSE (IF robex THEN <<"skull_stripped">> ELSE <<>>)
         \o (IF mni_reg THEN <<"mni_registered">> ELSE <<>>)
         \o (IF segmentation THEN <<"segmented">> ELSE <<>>)

\* names, as the three if-blocks of the script build it from the flags.
NamesOf(robex, mni_reg, segmentation) ==
    (IF robex THEN <<"skull_stripped">> ELSE <<>>)
    \o (IF mni_reg THEN <<"mni_registered">> ELSE <<>>)
    \o (IF segmentation THEN <<"segmented">> ELSE <<>>)

Names == NamesOf(args.robex, args.mni_reg, args.segmentation)

\* '_'.join(names)
RECURSIVE JoinNames(_)
JoinNames(ns) ==
    IF ns = <<>> THEN <<>>
    ELSE IF Len(ns) = 1 THEN <<ns[1]>>
    ELSE <<ns[1], "_">> \o JoinNames(Tail(ns))

\* The files list of preprocessAndReplace.
Files == 1..env.nfiles

\* ------------------------------------------------------------ output paths

\* output_path of process_single_file for one step: the step's own directory,
\* the input's relative directory, and <base_name>_<step_name>.nii.gz.
OutputDir(f, step_name) ==
    Join(Join(CURRENT_DIR, <<step_name>>), Dirname(Relpath(FilePath(f), BASE_DIR)))

BaseName(f) ==
    LET base_name == SplitextRoot(Basename(FilePath(f)))
    IN  IF EndsWithNii(base_name)
        THEN SubSeq(base_name, 1, Len(base_name) - 2)
        ELSE base_name

OutputPath(f, step_name) ==
    Join(OutputDir(f, step_name),
         BaseName(f) \o <<"_", step_name, ".", "nii", ".", "gz">>)

\* output_path of process_single_file_gpu: one path per file, computed before
\* the loop from the joined names (os.path.join drops an empty middle part).
GpuOutputPath(f, ns) ==
    IF ns = <<>>
    THEN Join(CURRENT_DIR, Relpath(FilePath(f), BASE_DIR))
    ELSE Join(Join(CURRENT_DIR, JoinNames(ns)), Relpath(FilePath(f), BASE_DIR))

\* The output path handed to step i of file f under the stage list ns.
StagePath(script, f, ns, i) ==
    IF script = "preprocess" THEN OutputPath(f, ns[i]) ELSE GpuOutputPath(f, ns)

\* ------------------------------------------------------------------ stages

\* How step i is invoked: check_call on an argument vector ("external"), the
\* SimpleITK function called in the worker ("inprocess"), a GPU callable
\* called with a device ("gpu_callable"), or a GPU callable called with two
\* arguments because CUDA is missing ("bad_call": a TypeError).
StageKind(i) ==
    IF args.script = "preprocess"
    THEN IF Names[i] = "mni_registered" THEN "inprocess" ELSE "external"
    ELSE IF args.gpu /\ env.cuda THEN "gpu_callable"
         ELSE IF args.gpu THEN "bad_call"
         ELSE "external"

\* What an invocation of each kind can do: "ok" (exit code 0, the function
\* returns, the callable returns True), "fail" (non-zero exit, a raised
\* exception), "false" (the callable caught its own fault and returned False),
\* "hang" (it does not end by itself), "crash" (the worker process dies in
\* native code).
Behaviours(kind) ==
    CASE kind = "external"     -> {"ok", "fail", "hang"}
      [] kind = "inprocess"    -> {"ok", "fail", "hang", "crash"}
      [] kind = "gpu_callable" -> {"ok", "false", "fail", "hang", "crash"}
      [] OTHER                 -> {"fail"}

\* The timeout the invocation is made with.
Deadline(i) ==
    IF StageKind(i) = "external"
    THEN IF args.script = "preprocess" THEN args.timeout ELSE GpuTimeout
    ELSE NoDeadline

Continues_ExceptionPasses(beh) == beh \in {"ok", "false", "fail"}

\* Whether the loop body reaches `current_file = output_path` after an
\* invocation that ended with behaviour beh (else the except clause returns
\* False).  A hang ends only by check_call's TimeoutExpired.
Continues(beh) == beh \in {"ok", "false"}

\* ----------------------------------------------------------------- the pool

Min(a, b) == IF a <= b THEN a ELSE b
Max(a, b) == IF a >= b THEN a ELSE b

NJobs_Unclamped ==
    IF args.n_jobs # 0 THEN args.n_jobs
    ELSE IF args.script = "preprocess"
         THEN Max(1, (env.cores * 3) \div 4)
         ELSE env.cores

\* n_jobs of preprocessAndReplace.
NJobs ==
    IF args.n_jobs # 0 THEN args.n_jobs
    ELSE IF args.script = "preprocess"
         THEN Min(Max(1, (env.cores * 3) \div 4), env.nfiles)
         ELSE Min(env.cores, env.nfiles)

Running == {f \in FileIds : status[f] = "running"}

\* The record of one stage invocation: the loop index, the two paths handed
\* to the command, the timeout it runs under, and what it did ("running"
\* until that shows).
Call(f, i, input) ==
    [stage |-> i,
     input |-> input,
     output |-> StagePath(args.script, f, Names, i),
     deadline |-> Deadline(i),
     beh |-> "running",
     ended |-> FALSE]

OwnIndex_Shared(f, i) == [g \in FileIds |-> i]

\* The loop index is a local variable of the call of the worker function for
\* file f: setting it to i leaves the index of every other call alone.
OwnIndex(f, i) == [idx EXCEPT ![f] = i]

NextIndex_Same(i) == i

\* The index of the loop iteration after iteration i of
\* `for i, command in enumerate(commands)`.
NextIndex(i) == i + 1

CurrentFileAfter_Unchanged(f, call) == current_file[f]

\* current_file once the stage invocation call of file f is behind:
\* `current_file = output_path`.
CurrentFileAfter(f, call) == call.output

\* The directories os.makedirs has created once step i of file f is reached:
\* preprocess.py creates the step's directory in every iteration,
\* preprocess_gpu.py the one directory of its output path before the loop.
DirsAfter(f, i) ==
    IF args.script = "preprocess"
    THEN dirs \cup {OutputDir(f, Names[i])}
    ELSE dirs \cup {Dirname(GpuOutputPath(f, Names))}

\* str.replace('.nii.gz', ''): the path without any ".nii.gz" in it.
RECURSIVE RemoveNiiGz(_)
RemoveNiiGz(p) ==
    IF Len(p) < 4 THEN p
    ELSE IF SubSeq(p, 1, 4) = <<".", "nii", ".", "gz">>
         THEN RemoveNiiGz(SubSeq(p, 5, Len(p)))
         ELSE <<Head(p)>> \o RemoveNiiGz(Tail(p))

\* One tissue-class file of a segmentation: <base>_pve_<n>.nii.gz.
PveFile(output, n) ==
    RemoveNiiGz(output) \o <<"_", "pve", "_", n, ".", "nii", ".", "gz">>

\* The files a successful invocation leaves: the tissue-class files beside
\* the output path for a segmentation (fast -o <base>, segment_tissues), the
\* file at the output path itself for the other stages, which are handed the
\* path to write to.
Outputs(call) ==
    IF Names[call.stage] = "segmented"
    THEN {PveFile(call.output, "0"), PveFile(call.output, "1"), PveFile(call.output, "2")}
    ELSE {call.output}

\* What an invocation has left when it is stopped while it writes: the file
\* at the output path, partial (the stages write in place: no temporary file,
\* no rename), or the first tissue-class file segment_tissues saves.
Leftovers(call) ==
    IF Names[call.stage] = "segmented"
    THEN {PveFile(call.output, "1")}
    ELSE {call.output}

\* The files an invocation with behaviour beh adds.  Of the points at which
\* an invocation can stop short, the model has the two ends: one that reports
\* its failure itself (non-zero exit, exception, False) stopped before it
\* wrote; one that is stopped from outside (killed at the deadline, never
\* returning, dying) was writing.
Writes(call, beh) ==
    IF StageKind(call.stage) = "bad_call" THEN {}
    ELSE IF beh = "ok" THEN Outputs(call)
    ELSE IF beh \in {"hang", "crash"} THEN Leftovers(call)
    ELSE {}

\* ------------------------------------------------------------------ Init

\* The parsed command lines.  --gpu exists in preprocess_gpu.py only and
\* --timeout in preprocess.py only (NoDeadline stands for the missing option);
\* --timeout is left at its default.
ArgsSet ==
    {a \in [script : {"preprocess", "preprocess_gpu"}, robex : BOOLEAN,
            mni_reg : BOOLEAN, segmentation : BOOLEAN, gpu : BOOLEAN,
            n_jobs : 0..MaxJobs, timeout : {DefaultTimeout, NoDeadline}] :
        /\ a.script = "preprocess" => ~a.gpu
        /\ a.script = "preprocess" <=> a.timeout = DefaultTimeout}

EnvSet == [cuda : BOOLEAN, cores : 1..MaxCores, nfiles : 0..MaxFiles]

\* The state when __main__ calls preprocessAndReplace.  What the run never
\* reads is fixed: torch.cuda.is_available() is read only under --gpu, and
\* mp.cpu_count() decides nothing once --n_jobs is given.
Init ==
    /\ args \in ArgsSet
    /\ env \in EnvSet
    /\ env.cuda => args.gpu
    /\ args.n_jobs # 0 => env.cores = 1
    /\ pc = "start"
    /\ n_jobs = 0
    /\ executor = "none"
    /\ status = [f \in FileIds |-> "unsubmitted"]
    /\ idx = [f \in FileIds |-> 0]
    /\ current_file = [f \in FileIds |-> <<>>]
    /\ future = [f \in FileIds |-> "pending"]
    /\ log = [f \in FileIds |-> <<>>]
    /\ dirs = {}
    /\ successful = 0
    /\ failed = 0
    /\ pbar = 0
    /\ counted = [f \in FileIds |-> 0]
    /\ exit = "running"

\* ---------------------------------------------------------------- actions

\* preprocessAndReplace up to the submission of the futures: the glob, the
\* early return on an empty list (after which __main__ prints its last line),
\* the choice of n_jobs, the creation of the pool and one submit per file.
Discover ==
    /\ pc = "start"
    /\ IF Files = {}
       THEN /\ pc' = "done"
            /\ exit' = "completed"
            /\ UNCHANGED <<n_jobs, executor, status>>
       ELSE /\ pc' = "collect"
            /\ n_jobs' = NJobs
            /\ executor' = "running"
            /\ status' = [f \in FileIds |-> IF f \in Files THEN "queued" ELSE "unsubmitted"]
            /\ UNCHANGED exit
    /\ UNCHANGED <<args, env, idx, current_file, future, log, dirs,
                   successful, failed, pbar, counted>>

\* A free worker takes the oldest queued work item (the executor hands the
\* work items out in the order of submission, which is the order of the files
\* list) and runs the function up to its first blocking point, the call of
\* the first stage; with an empty command list the function returns True at
\* once.
StartTask(f) ==
    /\ executor = "running"
    /\ status[f] = "queued"
    /\ \A g \in Files : g < f => status[g] # "queued"
    /\ Cardinality(Running) < n_jobs
    /\ idx' = OwnIndex(f, 1)
    /\ current_file' = [current_file EXCEPT ![f] = FilePath(f)]
    /\ IF Names = <<>>
       THEN /\ status' = [status EXCEPT ![f] = "done"]
            /\ future' = [future EXCEPT ![f] = "True"]
            /\ dirs' = IF args.script = "preprocess_gpu"
                       THEN dirs \cup {Dirname(GpuOutputPath(f, Names))}
                       ELSE dirs
            /\ UNCHANGED log
       ELSE /\ status' = [status EXCEPT ![f] = "running"]
            /\ log' = [log EXCEPT ![f] = <<Call(f, 1, FilePath(f))>>]
            /\ dirs' = DirsAfter(f, 1)
            /\ UNCHANGED future
    /\ UNCHANGED <<args, env, pc, n_jobs, executor, successful, failed,
                   pbar, counted, exit>>

\* The futures after a worker process died: the executor marks itself broken
\* and sets BrokenProcessPool on every work item that is not done.
BrokenStatus == [g \in FileIds |->
                    IF status[g] \in {"queued", "running"} THEN "done" ELSE status[g]]
BrokenFuture == [g \in FileIds |->
                    IF status[g] \in {"queued", "running"} THEN "BrokenProcessPool"
                    ELSE future[g]]

\* The running invocation shows its behaviour and the worker runs on to its
\* next blocking point: the call of the next stage, `return True` after the
\* last one, or `return False` in the except clause.  A hanging invocation
\* ends when check_call's timeout expires; made without a timeout, it stays
\* in the stage.  A crash takes the worker process, and the pool, with it.
StageEnds(f) ==
    /\ status[f] = "running"
    /\ LET n == Len(log[f])
           call == log[f][n]
       IN  /\ call.beh = "running"
           /\ \E beh \in Behaviours(StageKind(call.stage)) :
                IF beh = "hang" /\ call.deadline = NoDeadline
                THEN /\ log' = [log EXCEPT ![f][n].beh = beh]
                     /\ UNCHANGED <<executor, status, future, idx, current_file, dirs>>
                ELSE IF beh = "crash"
                THEN /\ log' = [log EXCEPT ![f][n].beh = beh, ![f][n].ended = TRUE]
                     /\ executor' = "broken"
                     /\ status' = BrokenStatus
                     /\ future' = BrokenFuture
                     /\ UNCHANGED <<idx, current_file, dirs>>
                ELSE IF Continues(beh)
                THEN /\ current_file' = [current_file EXCEPT ![f] = CurrentFileAfter(f, call)]
                     /\ idx' = OwnIndex(f, NextIndex(idx[f]))
                     /\ UNCHANGED executor
                     /\ IF idx[f] = Len(Names)
                        THEN /\ log' = [log EXCEPT ![f][n].beh = beh, ![f][n].ended = TRUE]
                             /\ status' = [status EXCEPT ![f] = "done"]
                             /\ future' = [future EXCEPT ![f] = "True"]
                             /\ UNCHANGED dirs
                        ELSE /\ log' = [log EXCEPT ![f] =
                                  Append([@ EXCEPT ![n].beh = beh, ![n].ended = TRUE],
                                         Call(f, NextIndex(idx[f]), CurrentFileAfter(f, call)))]
                             /\ dirs' = DirsAfter(f, NextIndex(idx[f]))
                             /\ UNCHANGED <<status, future>>
                ELSE /\ log' = [log EXCEPT ![f][n].beh = beh, ![f][n].ended = TRUE]
                     /\ status' = [status EXCEPT ![f] = "done"]
                     /\ future' = [future EXCEPT ![f] = "False"]
                     /\ UNCHANGED <<idx, current_file, executor, dirs>>
    /\ UNCHANGED <<args, env, pc, n_jobs, successful, failed, pbar,
                   counted, exit>>

SuccessfulAfter_Always(fut, n) == n + 1

\* The counters after future.result() gave (or raised) fut.
SuccessfulAfter(fut, n) == IF fut = "True" THEN n + 1 ELSE n

\* FailedAfter with an except clause that forgets `failed += 1`.
FailedAfter_ExceptionUncounted(fut, n) == IF fut = "False" THEN n + 1 ELSE n

FailedAfter(fut, n) == IF fut = "True" THEN n ELSE n + 1

\* One iteration of `for future in as_completed(future_to_file)`.
Observe(f) ==
    /\ pc = "collect"
    /\ status[f] = "done"
    /\ status' = [status EXCEPT ![f] = "observed"]
    /\ successful' = SuccessfulAfter(future[f], successful)
    /\ failed' = FailedAfter(future[f], failed)
    /\ pbar' = pbar + 1
    /\ counted' = [counted EXCEPT ![f] = @ + 1]
    /\ UNCHANGED <<args, env, pc, n_jobs, executor, idx, current_file, future,
                   log, dirs, exit>>

\* as_completed is exhausted: the pool is shut down, the summary is printed
\* and __main__ prints "Preprocessing Completed.....".
Finish ==
    /\ pc = "collect"
    /\ \A f \in Files : status[f] = "observed"
    /\ pc' = "done"
    /\ exit' = "completed"
    /\ UNCHANGED <<args, env, n_jobs, executor, status, idx, current_file,
                   future, log, dirs, successful, failed, pbar, counted>>

Next ==
    \/ Discover
    \/ Finish
    \/ \E f \in FileIds :
         \/ StartTask(f)
         \/ StageEnds(f)
         \/ Observe(f)

Spec == Init /\ [][Next]_vars

\* The operating system schedules the main process and every worker process:
\* a step that is possible is eventually taken.  Every step consumes a queued
\* work item, ends a stage invocation or counts a future, so a run is finite
\* and a fair run stops only in a state where no step is possible.
FairSpec == Spec /\ WF_vars(Next)

\* ------------------------------------------------------------ vocabulary

Terminal(f) == status[f] \in {"done", "observed"}
Drained == pc = "done" /\ env.nfiles >= 1
Calls(f) == 1..Len(log[f])

\* The invocation ended and did not succeed: a non-zero exit or a raised
\* exception, a False from the callable, an expired timeout, a crash.
CallFailed(c) == c.ended /\ c.beh \in {"fail", "false", "hang", "crash"}

\* Every stage invocation of the run so far.
AllCalls == UNION {{log[f][j] : j \in Calls(f)} : f \in FileIds}

\* The paths at which a file, complete or partial, is visible: what the
\* invocations of the run have written so far.
Written ==
    UNION {Writes(c, c.beh) : c \in AllCalls}

\* Every configured stage was invoked for f and succeeded.
AllStagesOk(f) ==
    Len(log[f]) = Len(Names) /\ \A j \in Calls(f) : log[f][j].beh = "ok"

SomeStageFailed(f) == \E j \in Calls(f) : CallFailed(log[f][j])

\* The name of the stage whose failure the worker caught and turned into its
\* return value, "none" when there is no such stage.
FailedStage(f) ==
    IF \E j \in Calls(f) : log[f][j].ended /\ log[f][j].beh \in {"fail", "hang"}
    THEN Names[(CHOOSE j \in Calls(f) :
                   log[f][j].ended /\ log[f][j].beh \in {"fail", "hang"})]
    ELSE "none"

\* The stage lists the three flags can build.
Chains == {NamesOf(r, m, s) : r \in BOOLEAN, m \in BOOLEAN, s \in BOOLEAN}

\* ----------------------------------------------------------------- claims

\* C1: once the pool has drained, exactly one result has been recorded per
\* discovered file: successful + failed = N, every discovered file was
\* counted once, and nothing else was counted.
C1_OneResultPerFile ==
    Drained =>
        /\ successful + failed = env.nfiles
        /\ \A f \in Files : counted[f] = 1
        /\ \A f \in FileIds \ Files : counted[f] = 0

\* C1 witness: a drained run over at least two files in which a worker
\* crashed, so that futures ended by exception were counted too.
C1_Witness ==
    Drained /\ env.nfiles >= 2 /\ executor = "broken" /\ failed >= 2

\* C2: stage k+1 is invoked for a file only after stage k returned success
\* for it, and a stage that ended in failure is the file's last invocation
\* and leaves the file Failed.
C2_NextStageOnlyAfterSuccess ==
    \A f \in Files : \A j \in Calls(f) :
        /\ j > 1 => log[f][j - 1].beh = "ok"
        /\ CallFailed(log[f][j]) =>
               j = Len(log[f]) /\ Terminal(f) /\ future[f] # "True"

\* C3: after the pool drains, Successful is the number of files all of whose
\* configured stages returned success, and Failed the number of files with
\* at least one failed stage.
C3_CountsMatchStageOutcomes ==
    Drained =>
        /\ successful = Cardinality({f \in Files : AllStagesOk(f)})
        /\ failed = Cardinality({f \in Files : SomeStageFailed(f)})

\* C4: for two distinct discovered files and the same stage, the output
\* paths handed to the stage differ.
C4_DistinctFilesDistinctOutputs ==
    \A f \in Files : \A g \in Files \ {f} :
        \A j \in Calls(f) : \A k \in Calls(g) :
            log[f][j].stage = log[g][k].stage
                => log[f][j].output # log[g][k].output

\* C5: for one file, no two stages of a run are handed the same output path,
\* no stage is handed its input path as its output path, and the output path
\* a stage was handed differs from the path the same stage is handed when it
\* is reached through a different chain.
C5_DistinctChainsDistinctOutputs ==
    \A f \in Files :
        /\ \A j \in Calls(f) : \A k \in Calls(f) :
               j # k => log[f][j].output # log[f][k].output
        /\ \A j \in Calls(f) : log[f][j].input # log[f][j].output
        /\ \A j \in Calls(f) : \A c \in Chains : \A k \in 1..Len(c) :
               (Names[j] = c[k] /\ SubSeq(Names, 1, j) # SubSeq(c, 1, k))
                   => log[f][j].output # StagePath(args.script, f, c, k)

\* C6: a file's result is a failure only if one of its own stage invocations
\* failed: no failure of another file, whatever its kind, fails it.
C6_FailureIsolated ==
    \A g \in Files :
        (Terminal(g) /\ future[g] # "True") => SomeStageFailed(g)

\* C7: a stage invocation that does not end by itself was made with a
\* deadline, is ended when the deadline passes, and leaves its file Failed:
\* no invocation stays in the stage forever.
C7_EveryInvocationHasDeadline ==
    \A f \in Files : \A j \in Calls(f) :
        log[f][j].beh = "hang" =>
            /\ log[f][j].deadline # NoDeadline
            /\ log[f][j].ended
            /\ future[f] = "False"

\* C8: under fair scheduling, once a stage has hung for some file, every other
\* file is eventually counted and the run eventually prints its summary.
C8_HangDoesNotBlockRun ==
    (\E f \in Files : \E j \in Calls(f) : log[f][j].beh = "hang")
        ~> (pc = "done")

\* C9: the result recorded for a file whose stage k failed identifies stage
\* k: two files that failed at different stages have different results.
C9_ResultNamesFailingStage ==
    \A f \in Files : \A g \in Files :
        (/\ FailedStage(f) # "none"
         /\ FailedStage(g) # "none"
         /\ FailedStage(f) # FailedStage(g))
            => future[f] # future[g]

\* C10: a run whose discovery found no file ends in a DiscoveryError, not in
\* normal completion, and has created no pool, invoked no stage and created
\* no directory.
C10_EmptyDiscoveryIsFatal ==
    (pc = "done" /\ env.nfiles = 0) =>
        /\ exit = "DiscoveryError"
        /\ executor = "none"
        /\ dirs = {}
        /\ \A f \in FileIds : log[f] = <<>>

\* The path the k-th stage of file f is to write under the stage list ns:
\* <output root>/<chain>/<relative directory>/<stem>_<chain>.nii.gz, with
\* <chain> the underscore-joined names of the stages 1..k and <stem> the file
\* name without its .nii extension.
C11_Chain(ns, k) == JoinNames(SubSeq(ns, 1, k))
C11_Stem(f) == SubSeq(FileName(f), 1, Len(FileName(f)) - 2)
C11_Expected(f, ns, k) ==
    <<"cwd", "/">> \o C11_Chain(ns, k)
        \o <<"/", "ADNI", "/", "a", "/", "b", "/", "c", "/", "d", "/">>
        \o C11_Stem(f) \o <<"_">> \o C11_Chain(ns, k) \o <<".", "nii", ".", "gz">>

\* C11: the output path handed to the k-th stage of a file is
\* <output root>/<chain>/<relative directory>/<stem>_<chain>.<canonical
\* extension>, the chain being the joined names of the stages 1..k.
C11_OutputPathNamesChain ==
    \A f \in Files : \A k \in Calls(f) :
        log[f][k].output = C11_Expected(f, Names, k)

\* A file named <stem>.nii whose stem holds no further dot, as scan1.nii.
C12_PlainName(f) ==
    /\ Len(FileName(f)) >= 3
    /\ SubSeq(FileName(f), Len(FileName(f)) - 1, Len(FileName(f))) = <<".", "nii">>
    /\ \A k \in 1..(Len(FileName(f)) - 2) : FileName(f)[k] # "."

C12_SingleStage(f) ==
    /\ args.script = "preprocess"
    /\ Names = <<"skull_stripped">>
    /\ f \in Files
    /\ C12_PlainName(f)
    /\ log[f] # <<>>

\* C12 as stated: in preprocess.py, for the single-stage pipeline
\* skull_stripped and an input <root>/ADNI/a/b/c/d/<stem>.nii, the output is
\* skull_stripped/a/b/c/d/<stem>_skull_stripped.nii.gz under the output root,
\* without the ADNI component.
C12_MirrorsBelowADNI ==
    \A f \in FileIds :
        C12_SingleStage(f) =>
            log[f][1].output =
                <<"cwd", "/", "skull_stripped", "/", "a", "/", "b", "/", "c", "/", "d", "/">>
                    \o C11_Stem(f) \o <<"_", "skull_stripped", ".", "nii", ".", "gz">>

\* C12 amended: the output is
\* skull_stripped/ADNI/a/b/c/d/<stem>_skull_stripped.nii.gz under the output
\* root: the mirrored directory is the input's directory relative to
\* base_dir, the ADNI component included.
C12_MirrorsRelativeToBaseDir ==
    \A f \in FileIds :
        C12_SingleStage(f) =>
            log[f][1].output =
                <<"cwd", "/", "skull_stripped", "/", "ADNI", "/",
                  "a", "/", "b", "/", "c", "/", "d", "/">>
                    \o C11_Stem(f) \o <<"_", "skull_stripped", ".", "nii", ".", "gz">>

\* C12 witness: the single skull_stripped stage of preprocess.py has ended
\* successfully for a.nii.
C12_Witness ==
    C12_SingleStage(1) /\ log[1][1].beh = "ok" /\ future[1] = "True"

\* C13: after a stage has failed for a file (non-zero exit, timeout, fault),
\* no file, complete or partial, is visible at the output path that stage was
\* given; a file is visible at an output path only when a stage given that
\* path has succeeded.
C13_NoOutputVisibleAfterFailure ==
    \A c \in {d \in AllCalls : d.ended /\ d.beh # "crash"} :
        /\ CallFailed(c) => c.output \notin Written
        /\ c.output \in Written =>
               \E d \in AllCalls : d.output = c.output /\ d.beh = "ok"

\* C14: when --gpu is given and no accelerator is available, every stage of
\* every file is run by the non-accelerated external command, and a file
\* fails only because such a command failed.
C14_GpuFallbackResolvedOnce ==
    (args.script = "preprocess_gpu" /\ args.gpu /\ ~env.cuda) =>
        \A f \in Files :
            /\ \A j \in Calls(f) :
                   log[f][j].ended => StageKind(log[f][j].stage) = "external"
            /\ future[f] = "False" =>
                   \E j \in Calls(f) : /\ StageKind(log[f][j].stage) = "external"
                                        /\ log[f][j].beh \in {"fail", "hang"}

\* floor(0.75 * c), by its defining inequalities.
C15_ThreeQuarters(c) == CHOOSE k \in 0..c : 4 * k <= 3 * c /\ 3 * c < 4 * (k + 1)

C15_Smaller(a, b) == CHOOSE m \in {a, b} : m <= a /\ m <= b

C15_Larger(a, b) == CHOOSE m \in {a, b} : m >= a /\ m >= b

C16_OwnOutcomeFails(f) ==
    \E j \in Calls(f) : log[f][j].beh \in {"fail", "hang", "crash"}

\* C16: the final counts are a function of the files' own stage outcomes,
\* whatever the pool size and the order of completion: Failed is the number
\* of files one of whose own stage invocations failed, Successful the number
\* of the others, and with every stage succeeding Successful = N, Failed = 0.
C16_CountsDependOnOutcomesOnly ==
    Drained =>
        /\ failed = Cardinality({f \in Files : C16_OwnOutcomeFails(f)})
        /\ successful = Cardinality({f \in Files : ~C16_OwnOutcomeFails(f)})
        /\ (\A f \in Files : AllStagesOk(f)) =>
               successful = env.nfiles /\ failed = 0

\* The original input path of every file.
C17_Original == [f \in FileIds |-> FilePath(f)]

\* C17: the first stage of a file is handed the original input file; every
\* later stage is handed the output path the stage before it was given (where
\* that stage, when it succeeded, wrote its file), and never the original
\* input path.
C17_OutputThreadedToNextStage ==
    \A f \in Files : \A j \in Calls(f) :
        IF j = 1
        THEN log[f][j].input = C17_Original[f]
        ELSE /\ log[f][j].input = log[f][j - 1].output
             /\ log[f][j].input # C17_Original[f]
             /\ log[f][j - 1].beh = "ok" =>
                    log[f][j].input \in Writes(log[f][j - 1], "ok")

\* The third stage of a file is running on what the second wrote, which ran
\* on what the first wrote.
C17_Witness ==
    /\ Len(log[1]) = 3
    /\ log[1][1].beh = "ok" /\ log[1][2].beh = "ok"
    /\ log[1][3].input \in Written

\* How far a work item has come.
C18_Rank(st) ==
    CASE st = "unsubmitted" -> 0
      [] st = "queued"      -> 1
      [] st = "running"     -> 2
      [] st = "done"        -> 3
      [] st = "observed"    -> 4

\* C18: no retry.  Only discovered files are submitted; a work item goes
\* forward only (submitted once, taken by a worker once, finished once,
\* counted once); the invocations of a file are of its stages 1, 2, ... in
\* order, each at most once; and once a file has its result, after a failure
\* or a timeout too, no stage is invoked for it again.
C18_NoRetry ==
    /\ [](\A f \in FileIds :
             /\ f \notin Files => status[f] = "unsubmitted"
             /\ status[f] \in {"unsubmitted", "queued"} => log[f] = <<>>
             /\ Len(log[f]) <= Len(Names)
             /\ \A j \in Calls(f) : log[f][j].stage = j
             /\ counted[f] <= 1)
    /\ [][\A f \in FileIds :
             /\ C18_Rank(status'[f]) >= C18_Rank(status[f])
             /\ Terminal(f) => log'[f] = log[f]
             /\ Len(log'[f]) <= Len(log[f]) + 1]_vars

\* A run over two stages has drained after the first stage of a file was
\* killed at its timeout: that stage was invoked once and the second never.
C18_Witness ==
    /\ Drained /\ Len(Names) = 2
    /\ Len(log[1]) = 1
    /\ log[1][1].beh = "hang" /\ log[1][1].ended
    /\ counted[1] = 1

\* C19: an external-process stage that exits with a non-zero code or is
\* killed at its timeout is a failure, the last invocation of its file, and
\* makes the file Failed; and the timeout that kills it is the configured
\* one (--timeout).
C19_ExternalFailureAndConfiguredTimeout ==
    \A f \in Files : \A j \in Calls(f) :
        (StageKind(j) = "external" /\ log[f][j].ended) =>
            /\ log[f][j].beh \in {"fail", "hang"} =>
                   j = Len(log[f]) /\ future[f] = "False"
            /\ log[f][j].beh = "hang" => log[f][j].deadline = args.timeout

\* An invocation of a callable that runs in the worker process (also one
\* called with the wrong arguments) raised an exception.
C20_Raised(f, j) ==
    /\ StageKind(j) \in {"inprocess", "gpu_callable", "bad_call"}
    /\ log[f][j].beh = "fail"

\* C20: an exception raised by an in-process stage callable ends the file's
\* pipeline with the result False; the worker function does not raise, so the
\* pool is broken only when a worker process died, and the worker of a file
\* that has its result is free for the next file.
C20_RaisedFaultBecomesFailure ==
    /\ \A f \in Files : \A j \in Calls(f) :
           C20_Raised(f, j) =>
               /\ j = Len(log[f])
               /\ log[f][j].ended
               /\ Terminal(f)
               /\ future[f] = "False"
    /\ executor = "broken" =>
           \E f \in Files : \E j \in Calls(f) : log[f][j].beh = "crash"
    /\ \A f \in Files :
           (Terminal(f) /\ executor = "running") => f \notin Running

\* With one worker, the in-process stage of the first file raised and the
\* same worker is now processing the second file.
C20_Witness ==
    /\ n_jobs = 1 /\ executor = "running"
    /\ log[1] # <<>> /\ C20_Raised(1, Len(log[1]))
    /\ future[1] = "False"
    /\ status[2] = "running"

\* The files whose work item (current path, stage index, number of stage
\* invocations) differs between the two states of a step.
C21_Touched ==
    {f \in FileIds : \/ idx'[f] # idx[f]
                     \/ Len(log'[f]) # Len(log[f])
                     \/ current_file'[f] # current_file[f]}

\* C21: the configuration (the flags, hence the stage list and its names,
\* and the timeout) never changes, the two roots and the timeout are the same
\* in the invocations of every file, and a step that changes the work item
\* of one file leaves the work item of every other file as it was.
C21_ConfigAndOtherWorkItemsUnchanged ==
    /\ [](\A f \in Files : \A j \in Calls(f) :
             /\ log[f][j].deadline = Deadline(j)
             /\ SubSeq(log[f][j].output, 1, Len(CURRENT_DIR)) = CURRENT_DIR
             /\ SubSeq(log[f][1].input, 1, Len(BASE_DIR)) = BASE_DIR
             /\ \A g \in Files :
                    j \in Calls(g) => log[g][j].deadline = log[f][j].deadline)
    /\ [][/\ args' = args
          /\ Cardinality(C21_Touched) <= 1]_vars

\* Two files are being processed at once, the first in its second stage and
\* the second in its first.
C21_Witness ==
    /\ status[1] = "running" /\ status[2] = "running"
    /\ idx[1] = 2 /\ idx[2] = 1
    /\ current_file[1] = log[1][1].output
    /\ current_file[2] = FilePath(2)

\* The futures the main loop has taken from as_completed so far.
C22_Observed == {f \in FileIds : status[f] = "observed"}

\* C22: while the pool is running, successful + failed is the number of
\* completed futures observed so far, as is the progress counter, and never
\* more than the number of discovered files; a step that observes a
\* completion adds one to exactly one of the two counters and one to the
\* progress counter, and no other step changes any of the three.
C22_CountersFollowObservations ==
    /\ [](pc = "collect" =>
             /\ successful + failed = Cardinality(C22_Observed)
             /\ pbar = Cardinality(C22_Observed)
             /\ successful + failed <= env.nfiles)
    /\ [][/\ successful' \in {successful, successful + 1}
          /\ failed' \in {failed, failed + 1}
          /\ (successful' - successful) + (failed' - failed) = pbar' - pbar
          /\ pbar' - pbar = Cardinality(C22_Observed' \ C22_Observed)
          /\ C22_Observed \subseteq C22_Observed']_vars

\* Two completions have been observed, one counted as successful and one as
\* failed, and the summary has not been printed yet.
C22_Witness ==
    /\ pc = "collect"
    /\ successful = 1 /\ failed = 1 /\ pbar = 2
    /\ C22_Observed = {1, 2}

\* None of --robex, --mni_reg, --segmentation was given.
C23_NoStageSelected == ~args.robex /\ ~args.mni_reg /\ ~args.segmentation

\* C23: with no stage flag and at least one discovered file, no stage is
\* invoked and no stage output is written, no file is ever in a stage, every
\* file that has its result has the result True, nothing is counted as
\* failed, and the summary reports Successful = N, Failed = 0.
C23_EmptyPipelineSucceeds ==
    (C23_NoStageSelected /\ env.nfiles >= 1) =>
        /\ AllCalls = {}
        /\ Written = {}
        /\ \A f \in Files :
               /\ status[f] # "running"
               /\ Terminal(f) => future[f] = "True"
        /\ failed = 0
        /\ executor # "broken"
        /\ Drained => successful = env.nfiles

\* A run over two files with no stage selected has printed its summary.
C23_Witness ==
    /\ C23_NoStageSelected
    /\ env.nfiles = 2
    /\ Drained
    /\ successful = 2
    /\ future[1] = "True" /\ future[2] = "True"

====
